---- MODULE Spec2Model ----
(***************************************************************************)
(* A model of the dax manager (src/dax/dax_manager.py) and of the stage    *)
(* entry points it calls (src/dax/bin.py): lock files, stale-lock reaping, *)
(* settings catalog regeneration and build bookkeeping.                    *)
(***************************************************************************)
EXTENDS Integers, Sequences, FiniteSets, TLC

(***************************************************************************)
(* Bounds of the model.                                                    *)
(***************************************************************************)
NumFiles == 2
MaxPid == 2
NumTasks == 2
NumCli == 2
MaxTime == 1

(***************************************************************************)
(* Text.  A string is a sequence of one-character strings, so that         *)
(* str.split and int() are computed the way Python computes them.          *)
(***************************************************************************)
Digits == {"0", "1", "2", "3", "4", "5", "6", "7", "8", "9"}

DigitVal(c) ==
    CASE c = "0" -> 0 [] c = "1" -> 1 [] c = "2" -> 2 [] c = "3" -> 3
      [] c = "4" -> 4 [] c = "5" -> 5 [] c = "6" -> 6 [] c = "7" -> 7
      [] c = "8" -> 8 [] c = "9" -> 9

DigitChar(d) ==
    <<"0", "1", "2", "3", "4", "5", "6", "7", "8", "9">>[d + 1]

\* str.split(sep): the pieces between the separators, empty pieces kept.
RECURSIVE SplitFrom(_, _, _, _)
SplitFrom(s, sep, i, cur) ==
    IF i > Len(s) THEN <<cur>>
    ELSE IF s[i] = sep THEN <<cur>> \o SplitFrom(s, sep, i + 1, <<>>)
    ELSE SplitFrom(s, sep, i + 1, Append(cur, s[i]))

Split(s, sep) == SplitFrom(s, sep, 1, <<>>)

\* int() strips surrounding whitespace before it reads the digits.
RECURSIVE StripWs(_)
StripWs(s) ==
    IF s = <<>> THEN s
    ELSE IF Head(s) \in {" ", "\n"} THEN StripWs(Tail(s))
    ELSE IF s[Len(s)] \in {" ", "\n"} THEN StripWs(SubSeq(s, 1, Len(s) - 1))
    ELSE s

\* int(s) raises ValueError unless s is an optional sign and digits.
IsIntText(s) ==
    LET t == StripWs(s)
        body == IF t # <<>> /\ Head(t) \in {"+", "-"} THEN Tail(t) ELSE t
    IN  body # <<>> /\ \A i \in 1..Len(body) : body[i] \in Digits

RECURSIVE DigitsValue(_)
DigitsValue(s) ==
    IF s = <<>> THEN 0
    ELSE 10 * DigitsValue(SubSeq(s, 1, Len(s) - 1)) + DigitVal(s[Len(s)])

IntOfText(s) ==
    LET t == StripWs(s)
    IN  IF Head(t) = "-" THEN 0 - DigitsValue(Tail(t))
        ELSE IF Head(t) = "+" THEN DigitsValue(Tail(t))
        ELSE DigitsValue(t)

\* str(n) for n >= 0.
RECURSIVE TextOfNat(_)
TextOfNat(n) ==
    IF n < 10 THEN <<DigitChar(n)>>
    ELSE TextOfNat(n \div 10) \o <<DigitChar(n % 10)>>

(***************************************************************************)
(* State.                                                                  *)
(***************************************************************************)
VARIABLES
    flagfiles,  \* the FlagFiles directory: file name -> text, or NoFile
    ptable,     \* the operating system's process table: pid -> state
    reap,       \* the position of a clean_lockfiles pass
    deleted,    \* history: the <<name, text>> pairs the pass has removed
    visited,    \* history: the names check_lockfile has been called on
    procs,      \* the processes running run_build or a dax.bin entry point
    reg,        \* the registry's build bookkeeping: project -> fields
    clock,      \* the wall clock, in seconds
    rc,         \* the registry's project records: project -> fields
    sdir,       \* the settings directory: project -> document, or NoDoc
    cat,        \* the outcome of the last catalog regeneration
    cyc,        \* the coordinator of one invocation of the manager
    pool,       \* a build pool and the tasks submitted to it
    dur         \* two timestamps and the duration computed from them

reapvars == <<ptable, reap, deleted, visited>>
catvars == <<rc, sdir, cat>>
runvars == <<cyc, pool, dur>>
vars == <<flagfiles, ptable, reap, deleted, visited, procs, reg, clock,
          rc, sdir, cat, cyc, pool, dur>>

NoFile == <<"absent">>

Pids == 1..MaxPid

(***************************************************************************)
(* Host names.  gethostname() may carry a domain; lock files record the    *)
(* short name.                                                             *)
(***************************************************************************)
HostN == <<"n">>
HostNB == <<"n", "-", "b">>
HostR == <<"r">>
HostND == <<"n", ".", "d">>

ShortHosts == {HostN, HostNB, HostR}

\* socket.gethostname().split('.')[0]
ThisHost(gethostname) == Split(gethostname, ".")[1]

\* The text of a lock file: "{hostname}-{pid}".
LockText(host, pid) == host \o <<"-">> \o TextOfNat(pid)

(***************************************************************************)
(* pid_exists: os.kill(pid, 0).                                            *)
(***************************************************************************)
KillOutcome(pid) ==
    IF pid = 0 THEN "ok"
    ELSE IF pid \notin DOMAIN ptable THEN "esrch"
    ELSE CASE ptable[pid] = "own" -> "ok"
           [] ptable[pid] = "other" -> "eperm"
           [] ptable[pid] = "dead" -> "esrch"

\* a liveness check that takes "operation not permitted" for "not running"
pid_exists_eperm_dead(pid) ==
    IF pid < 0 THEN FALSE
    ELSE KillOutcome(pid) = "ok"

pid_exists(pid) ==
    IF pid < 0 THEN FALSE
    ELSE CASE KillOutcome(pid) = "esrch" -> FALSE
           [] KillOutcome(pid) = "eperm" -> TRUE
           [] KillOutcome(pid) = "ok" -> TRUE

(***************************************************************************)
(* check_lockfile, up to the liveness check: what reading and parsing the  *)
(* first line decides.                                                     *)
(***************************************************************************)
ParseLock(line, this_host) ==
    LET parts == Split(line, "-")
    IN  IF Len(parts) # 2 THEN [kind |-> "valueerror", pid |-> 0]
        ELSE IF ~IsIntText(parts[2]) THEN [kind |-> "valueerror", pid |-> 0]
        ELSE IF parts[1] # this_host THEN [kind |-> "otherhost", pid |-> 0]
        ELSE [kind |-> "thishost", pid |-> IntOfText(parts[2])]

(***************************************************************************)
(* clean_lockfiles: one pass over the directory listing.                   *)
(***************************************************************************)
RECURSIVE SetToSeq(_)
SetToSeq(S) ==
    IF S = {} THEN <<>>
    ELSE LET x == CHOOSE y \in S : TRUE
         IN  <<x>> \o SetToSeq(S \ {x})

ReapIdle(gethostname) ==
    [pc |-> "idle", host |-> gethostname, list |-> <<>>, pid |-> 0]

\* os.listdir(lock_dir)
ReapList ==
    /\ reap.pc = "idle"
    /\ reap' = [reap EXCEPT
           !.pc = "open",
           !.list = SetToSeq({f \in DOMAIN flagfiles : flagfiles[f] # NoFile})]
    /\ UNCHANGED <<flagfiles, ptable, deleted, visited, procs, reg, clock, catvars, runvars>>

\* the loop is over: clean_lockfiles returns
ReapReturn ==
    /\ reap.pc = "open"
    /\ reap.list = <<>>
    /\ reap' = [reap EXCEPT !.pc = "done"]
    /\ UNCHANGED <<flagfiles, ptable, deleted, visited, procs, reg, clock, catvars, runvars>>

\* check_lockfile: open, readline, split, int, host comparison
ReapOpen ==
    /\ reap.pc = "open"
    /\ reap.list # <<>>
    /\ LET f == Head(reap.list)
           line == flagfiles[f]
           p == ParseLock(line, ThisHost(reap.host))
       IN  /\ visited' = visited \cup {f}
           /\ IF line = NoFile \/ p.kind # "thishost"
              THEN reap' = [reap EXCEPT !.list = Tail(reap.list)]
              ELSE reap' = [reap EXCEPT !.pc = "kill", !.pid = p.pid]
    /\ UNCHANGED <<flagfiles, ptable, deleted, procs, reg, clock, catvars, runvars>>

\* check_lockfile: elif pid_exists(pid)
ReapKill ==
    /\ reap.pc = "kill"
    /\ IF pid_exists(reap.pid)
       THEN reap' = [reap EXCEPT !.pc = "open", !.list = Tail(reap.list)]
       ELSE reap' = [reap EXCEPT !.pc = "remove"]
    /\ UNCHANGED <<flagfiles, ptable, deleted, visited, procs, reg, clock, catvars, runvars>>

\* check_lockfile: os.remove(file); a missing file raises an OSError that
\* the except IOError clause catches
ReapRemove ==
    /\ reap.pc = "remove"
    /\ LET f == Head(reap.list)
       IN  /\ flagfiles' = [flagfiles EXCEPT ![f] = NoFile]
           /\ deleted' = IF flagfiles[f] = NoFile THEN deleted
                         ELSE deleted \cup {<<f, flagfiles[f]>>}
    /\ reap' = [reap EXCEPT !.pc = "open", !.list = Tail(reap.list)]
    /\ UNCHANGED <<ptable, visited, procs, reg, clock, catvars, runvars>>

(***************************************************************************)
(* The reaping specification: a directory of lock files with any of the    *)
(* texts below, any process table, one pass.                               *)
(***************************************************************************)
ReapNames == 1..NumFiles

LockTexts ==
    {LockText(h, p) : h \in ShortHosts, p \in Pids}
        \cup {<<>>, <<"n", "-", "x">>, <<"n", "-", "0">>}

InitReap ==
    /\ flagfiles \in [ReapNames -> LockTexts \cup {NoFile}]
    /\ ptable \in [Pids -> {"own", "other", "dead"}]
    /\ reap \in {ReapIdle(g) : g \in {HostN, HostNB, HostND}}
    /\ deleted = {}
    /\ visited = {}
    /\ procs = <<>>
    /\ reg = <<>>
    /\ clock = 0
    /\ rc = <<>>
    /\ sdir = <<>>
    /\ cat = <<>>
    /\ cyc = <<>>
    /\ pool = <<>>
    /\ dur = <<>>

NextReap ==
    \/ ReapList
    \/ ReapOpen
    \/ ReapKill
    \/ ReapRemove
    \/ ReapReturn

SpecReap == InitReap /\ [][NextReap]_vars

(***************************************************************************)
(* SpecRace: one pass of clean_lockfiles beside the processes of its host  *)
(* that take and release locks, and beside a second pass.                  *)
(***************************************************************************)
\* the process that wrote the lock file releases it and exits
LockRelease(f) ==
    /\ \E p \in Pids :
           /\ flagfiles[f] = LockText(HostN, p)
           /\ ptable[p] = "own"
           /\ ptable' = [ptable EXCEPT ![p] = "dead"]
    /\ flagfiles' = [flagfiles EXCEPT ![f] = NoFile]
    /\ UNCHANGED <<reap, deleted, visited, procs, reg, clock, catvars, runvars>>

\* a process of this user starts on the host and takes the lock
LockAcquire(f) ==
    /\ flagfiles[f] = NoFile
    /\ \E p \in Pids :
           /\ ptable[p] = "dead"
           /\ \A g \in DOMAIN flagfiles : flagfiles[g] # LockText(HostN, p)
           /\ ptable' = [ptable EXCEPT ![p] = "own"]
           /\ flagfiles' = [flagfiles EXCEPT ![f] = LockText(HostN, p)]
    /\ UNCHANGED <<reap, deleted, visited, procs, reg, clock, catvars, runvars>>

\* check_lockfile of a second pass, on a file a dead process of this host
\* has left: it removes the file
OtherPass(f) ==
    /\ LET p == ParseLock(flagfiles[f], ThisHost(reap.host))
       IN  /\ flagfiles[f] # NoFile
           /\ p.kind = "thishost"
           /\ ~pid_exists(p.pid)
    /\ flagfiles' = [flagfiles EXCEPT ![f] = NoFile]
    /\ UNCHANGED <<ptable, reap, deleted, visited, procs, reg, clock, catvars, runvars>>

\* Every file is absent or carries the text of a process of its own, and a
\* process is alive only if it holds a lock.
InitRace ==
    /\ flagfiles \in [ReapNames -> {LockText(HostN, p) : p \in Pids} \cup {NoFile}]
    /\ \A f \in ReapNames, g \in ReapNames :
           (f # g /\ flagfiles[f] # NoFile) => flagfiles[f] # flagfiles[g]
    /\ ptable \in [Pids -> {"own", "dead"}]
    /\ \A p \in Pids :
           ptable[p] = "own"
               => \E f \in ReapNames : flagfiles[f] = LockText(HostN, p)
    /\ reap = ReapIdle(HostN)
    /\ deleted = {}
    /\ visited = {}
    /\ procs = <<>>
    /\ reg = <<>>
    /\ clock = 0
    /\ rc = <<>>
    /\ sdir = <<>>
    /\ cat = <<>>
    /\ cyc = <<>>
    /\ pool = <<>>
    /\ dur = <<>>

NextRace ==
    \/ ReapList
    \/ ReapOpen
    \/ ReapKill
    \/ ReapRemove
    \/ ReapReturn
    \/ \E f \in ReapNames :
           \/ LockRelease(f)
           \/ LockAcquire(f)
           \/ OtherPass(f)

SpecRace == InitRace /\ [][NextRace]_vars

(***************************************************************************)
(* Settings documents.  A stage reads whatever document the file system    *)
(* holds at its settings path when it reads: one written by write_each,    *)
(* one written by hand, or none.                                           *)
(***************************************************************************)
RequiredKeys == {"projects", "attrs", "modules", "processors", "yamlprocessors"}

\* general_defaults: the keys of the general section
GeneralKeys == {"processorlib", "modulelib", "singularity_imagedir", "attrs"}

\* DaxProjectSettings.dump: the top-level keys of a generated document
DumpKeys == GeneralKeys \cup {"modules", "yamlprocessors", "projects"}

AbsentDoc == {"<no file>"}
Unread == {"<unread>"}

\* a check that does not ask for the attrs key
check_default_keys_but_attrs(keys) ==
    \A key \in RequiredKeys \ {"attrs"} : key \in keys

\* check_default_keys: no DaxError
check_default_keys(keys) == \A key \in RequiredKeys : key \in keys

\* read_settings / read_yaml_settings raise DaxError
SettingsFault(doc) == doc = AbsentDoc \/ ~check_default_keys(doc)

(***************************************************************************)
(* Processes.  Tasks 1..NumTasks are run_build tasks of the build pools of *)
(* overlapping cycles (Spec); the others are invocations of dax.bin.build, *)
(* update_tasks or launch_jobs by the dax executables (SpecBin).           *)
(***************************************************************************)
Proj == {"A", "B"}
Stages == {"BUILD", "UPDATE", "LAUNCH"}

Tasks == 1..NumTasks
Clis == (NumTasks + 1)..(NumTasks + NumCli)
Procs == Tasks \cup Clis

ProjOf(i) == IF i % 2 = 1 THEN "A" ELSE "B"
HostOf(i) == IF i <= 2 THEN HostN ELSE HostNB
PidOf(i) == i

\* {resultsDir}/FlagFiles/{lockfile_prefix}_{suffix}
FlagFile(proj, suffix) == <<proj, suffix>>
KeyOf(i) == FlagFile(procs[i].proj, procs[i].stage)

\* is_locked(settings_path)
is_locked(proj) == flagfiles[FlagFile(proj, "BUILD")] # NoFile

NoTime == 0 - 1

\* a duration that always writes the hours segment
duration_with_hours(start_time, finish_time) ==
    IF start_time = NoTime \/ finish_time = NoTime THEN <<>>
    ELSE LET secs == finish_time - start_time
         IN  <<secs \div 3600, "hrs", (secs % 3600) \div 60, "mins">>

\* DaxProjectSettingsManager.duration
duration(start_time, finish_time) ==
    IF start_time = NoTime \/ finish_time = NoTime THEN <<>>
    ELSE LET secs == finish_time - start_time
             hours == secs \div 3600
             mins == (secs % 3600) \div 60
         IN  IF hours > 0 THEN <<hours, "hrs", mins, "mins">>
             ELSE <<mins, "mins">>

EmptyRecord ==
    [laststarttime |-> NoTime, status |-> "",
     lastcompletestarttime |-> NoTime, lastcompletefinishtime |-> NoTime,
     lastcompleteduration |-> <<>>]

\* datetime.now(): the clock has moved on by one second, or has not
Nows == {t \in {clock, clock + 1} : t <= MaxTime}

Alive(i) == procs[i].pc \notin {"idle", "done", "killed"}

Set(i, rec) == procs' = [procs EXCEPT ![i] = rec]

\* the dax.bin entry point returns to its caller
Returned(i, p) ==
    IF i \in Tasks THEN [p EXCEPT !.pc = "set_complete"]
    ELSE [p EXCEPT !.pc = "done", !.out = "ok"]

(***************************************************************************)
(* run_build                                                               *)
(***************************************************************************)
\* a run_build that goes on when the lock exists
RunBuildIgnoringLock(i) ==
    /\ i \in Tasks
    /\ procs[i].pc = "run_build"
    /\ Set(i, [procs[i] EXCEPT !.pc = "set_start",
                  !.saw = is_locked(procs[i].proj)])
    /\ UNCHANGED <<flagfiles, reg, clock, reapvars, catvars, runvars>>

\* run_build: if is_locked(settings_file): warn; else: go on
RunBuildCheck(i) ==
    /\ i \in Tasks
    /\ procs[i].pc = "run_build"
    /\ IF is_locked(procs[i].proj)
       THEN Set(i, [procs[i] EXCEPT !.pc = "done", !.out = "skipped",
                       !.saw = TRUE])
       ELSE Set(i, [procs[i] EXCEPT !.pc = "set_start"])
    /\ UNCHANGED <<flagfiles, reg, clock, reapvars, catvars, runvars>>

\* a run_build that notes the failure to record the start and goes on to
\* the build
SetLastBuildStartCarryOn(i) ==
    /\ i \in Tasks
    /\ procs[i].pc = "set_start"
    /\ \E response \in {"count", "nocount", "raise"}, now \in Nows :
           /\ clock' = now
           /\ IF response = "count"
              THEN /\ reg' = [reg EXCEPT ![procs[i].proj] =
                         [@ EXCEPT !.laststarttime = now, !.status = "1"]]
                   /\ Set(i, [procs[i] EXCEPT !.pc = "read_settings",
                                 !.wrote = @ \cup {"start"}])
              ELSE /\ reg' = reg
                   /\ Set(i, [procs[i] EXCEPT !.pc = "read_settings",
                                 !.out = "DaxManagerError"])
    /\ UNCHANGED <<flagfiles, reapvars, catvars, runvars>>

\* set_last_build_start: import_records answers with a count, answers
\* without one, or raises; the last two raise DaxManagerError
SetLastBuildStart(i) ==
    /\ i \in Tasks
    /\ procs[i].pc = "set_start"
    /\ \E response \in {"count", "nocount", "raise"}, now \in Nows :
           /\ clock' = now
           /\ IF response = "count"
              THEN /\ reg' = [reg EXCEPT ![procs[i].proj] =
                         [@ EXCEPT !.laststarttime = now, !.status = "1"]]
                   /\ Set(i, [procs[i] EXCEPT !.pc = "read_settings",
                                 !.wrote = @ \cup {"start"}])
              ELSE /\ reg' = reg
                   /\ Set(i, [procs[i] EXCEPT !.pc = "done",
                                 !.out = "DaxManagerError"])
    /\ UNCHANGED <<flagfiles, reapvars, catvars, runvars>>

\* set_last_build_complete
SetLastBuildComplete(i) ==
    /\ i \in Tasks
    /\ procs[i].pc = "set_complete"
    /\ \E response \in {"count", "nocount", "raise"}, now \in Nows :
           /\ clock' = now
           /\ IF response = "count"
              THEN LET last_start == reg[procs[i].proj].laststarttime
                   IN  /\ reg' = [reg EXCEPT ![procs[i].proj] =
                             [@ EXCEPT
                                 !.lastcompletestarttime = last_start,
                                 !.lastcompletefinishtime = now,
                                 !.lastcompleteduration =
                                     duration(last_start, now),
                                 !.status = "2"]]
                       /\ Set(i, [procs[i] EXCEPT !.pc = "done",
                                     !.out = "ok",
                                     !.wrote = @ \cup {"finish"}])
              ELSE /\ reg' = reg
                   /\ Set(i, [procs[i] EXCEPT !.pc = "done",
                                 !.out = "DaxManagerError"])
    /\ UNCHANGED <<flagfiles, reapvars, catvars, runvars>>

(***************************************************************************)
(* dax.bin.build, update_tasks, launch_jobs                                *)
(***************************************************************************)
\* a dax executable calls an entry point with a settings path
CliInvoke(i) ==
    /\ i \in Clis
    /\ procs[i].pc = "idle"
    /\ \E stage \in Stages, proj \in Proj :
           Set(i, [procs[i] EXCEPT !.pc = "read_settings",
                      !.stage = stage, !.proj = proj])
    /\ UNCHANGED <<flagfiles, reg, clock, reapvars, catvars, runvars>>

DocChoices(i) ==
    IF i \in Tasks THEN {DumpKeys, RequiredKeys}
    ELSE {RequiredKeys} \cup {RequiredKeys \ {key} : key \in RequiredKeys}

\* read_settings: a DaxError leaves the entry point before its try block
ReadSettings(i) ==
    /\ procs[i].pc = "read_settings"
    /\ \E doc \in DocChoices(i) :
           IF SettingsFault(doc)
           THEN Set(i, [procs[i] EXCEPT !.pc = "done", !.out = "DaxError",
                           !.doc = doc])
           ELSE Set(i, [procs[i] EXCEPT !.pc = "lock_check", !.doc = doc])
    /\ UNCHANGED <<flagfiles, reg, clock, reapvars, catvars, runvars>>

\* the launcher's acquire, first half: the lock file exists, skip and log
LockCheck(i) ==
    /\ procs[i].pc = "lock_check"
    /\ IF flagfiles[KeyOf(i)] # NoFile
       THEN Set(i, Returned(i, [procs[i] EXCEPT !.acq = "refused"]))
       ELSE Set(i, [procs[i] EXCEPT !.pc = "lock_create"])
    /\ UNCHANGED <<flagfiles, reg, clock, reapvars, catvars, runvars>>

\* the launcher's acquire, second half: create the lock file
LockCreate(i) ==
    /\ procs[i].pc = "lock_create"
    /\ flagfiles' = [flagfiles EXCEPT
           ![KeyOf(i)] = LockText(HostOf(i), PidOf(i))]
    /\ Set(i, [procs[i] EXCEPT !.pc = "stage", !.acq = "acquired"])
    /\ UNCHANGED <<reg, clock, reapvars, catvars, runvars>>

\* the launcher's stage ends well: it releases the lock and returns
StageSuccess(i) ==
    /\ procs[i].pc = "stage"
    /\ flagfiles' = [flagfiles EXCEPT ![KeyOf(i)] = NoFile]
    /\ Set(i, Returned(i, procs[i]))
    /\ UNCHANGED <<reg, clock, reapvars, catvars, runvars>>

\* entry points whose except clauses all name launcher.BUILD_SUFFIX
ExceptSuffixAlwaysBuild(stage) == "BUILD"

\* the suffix the except clause of each entry point puts after the lock
\* file prefix: launcher.BUILD_SUFFIX in build, launcher.UPDATE_SUFFIX in
\* update_tasks, launcher.LAUNCH_SUFFIX in launch_jobs
ExceptSuffix(stage) ==
    CASE stage = "BUILD" -> "BUILD"
      [] stage = "UPDATE" -> "UPDATE"
      [] stage = "LAUNCH" -> "LAUNCH"

\* the flagfile the except clause unlocks:
\* '%s_%s' % (lockfile_prefix, SUFFIX) under FlagFiles
ExceptFlagfile(i) == FlagFile(procs[i].proj, ExceptSuffix(procs[i].stage))

\* an entry point whose caller carries on to its bookkeeping after the
\* clause has raised
HandlerThenCarryOn(i, fault) ==
    IF fault = "message"
    THEN /\ flagfiles' = [flagfiles EXCEPT ![ExceptFlagfile(i)] = NoFile]
         /\ Set(i, Returned(i, [procs[i] EXCEPT !.fault = fault]))
    ELSE /\ flagfiles' = flagfiles
         /\ Set(i, Returned(i, [procs[i] EXCEPT !.fault = fault,
                                   !.out = "AttributeError"]))

\* the except Exception clause of an entry point: it logs e.__class__ and
\* e.message, then unlocks; reading e.message of an exception that has no
\* such attribute raises AttributeError out of the clause
Handler(i, fault) ==
    IF fault = "message"
    THEN /\ flagfiles' = [flagfiles EXCEPT ![ExceptFlagfile(i)] = NoFile]
         /\ Set(i, Returned(i, [procs[i] EXCEPT !.fault = fault]))
    ELSE /\ flagfiles' = flagfiles
         /\ Set(i, [procs[i] EXCEPT !.pc = "done", !.fault = fault,
                       !.out = "AttributeError"])

\* the launcher's stage raises an exception, with or without a message
\* attribute
StageFault(i) ==
    /\ procs[i].pc = "stage"
    /\ \E fault \in {"message", "nomessage"} : Handler(i, fault)
    /\ UNCHANGED <<reg, clock, reapvars, catvars, runvars>>

\* the process is killed while its launcher holds the lock
Kill(i) ==
    /\ procs[i].pc = "stage"
    /\ Set(i, [procs[i] EXCEPT !.pc = "killed"])
    /\ UNCHANGED <<flagfiles, reg, clock, reapvars, catvars, runvars>>

\* another process of host "n" takes a build lock, or deletes one (its
\* launcher's release, or its entry point's unlock after a fault)
ExtPid == NumTasks + NumCli + 1

ExtLock(proj) ==
    /\ flagfiles[FlagFile(proj, "BUILD")] = NoFile
    /\ flagfiles' = [flagfiles EXCEPT
           ![FlagFile(proj, "BUILD")] = LockText(HostN, ExtPid)]
    /\ UNCHANGED <<procs, reg, clock, reapvars, catvars, runvars>>

ExtUnlock(proj) ==
    /\ flagfiles[FlagFile(proj, "BUILD")] # NoFile
    /\ flagfiles' = [flagfiles EXCEPT ![FlagFile(proj, "BUILD")] = NoFile]
    /\ UNCHANGED <<procs, reg, clock, reapvars, catvars, runvars>>

InitProc(i) ==
    [pc |-> IF i \in Tasks THEN "run_build" ELSE "idle",
     stage |-> "BUILD", proj |-> ProjOf(i), doc |-> Unread,
     saw |-> FALSE, acq |-> "none", fault |-> "none", out |-> "none",
     wrote |-> {}]

InitShared ==
    /\ flagfiles = [k \in Proj \X Stages |-> NoFile]
    /\ reg = [p \in Proj |-> EmptyRecord]
    /\ clock = 0
    /\ ptable = [p \in Pids |-> "dead"]
    /\ reap = ReapIdle(HostN)
    /\ deleted = {}
    /\ visited = {}
    /\ rc = <<>>
    /\ sdir = <<>>
    /\ cat = <<>>
    /\ cyc = <<>>
    /\ pool = <<>>
    /\ dur = <<>>

(***************************************************************************)
(* Spec: the build tasks of overlapping cycles, beside other processes     *)
(* that take and release build locks.                                      *)
(***************************************************************************)
Init ==
    /\ InitShared
    /\ procs = [i \in Tasks |-> InitProc(i)]

Next ==
    \/ \E i \in Tasks :
           \/ RunBuildCheck(i)
           \/ SetLastBuildStart(i)
           \/ SetLastBuildComplete(i)
           \/ ReadSettings(i)
           \/ LockCheck(i)
           \/ LockCreate(i)
           \/ StageSuccess(i)
           \/ StageFault(i)
           \/ Kill(i)
    \/ \E proj \in Proj :
           \/ ExtLock(proj)
           \/ ExtUnlock(proj)

Spec == Init /\ [][Next]_vars

(***************************************************************************)
(* SpecRounds: the build task of each project in one cycle and, once it    *)
(* has ended, the task queue_builds submits for the project in the next    *)
(* cycle, with the last-run time get_last_run reads from the registry.     *)
(***************************************************************************)
\* get_last_run: the start of the last completed build, or None
get_last_run(rec) ==
    LET last_start == rec.lastcompletestarttime
        last_finish == rec.lastcompletefinishtime
    IN  IF last_start # NoTime /\ last_finish # NoTime
           /\ last_start < last_finish
        THEN last_start
        ELSE NoTime

\* no task of the project has run before
NoPrev == [wrote |-> {}, start |-> NoTime, finish |-> NoTime]

\* a task as queue_builds submits it: last_run is its argument; prev is
\* what the project's task of the cycle before wrote
QueuedTask(i, last_run, requeued, prev) ==
    [lastrun |-> last_run, requeued |-> requeued, prev |-> prev]
        @@ InitProc(i)

\* queue_builds of the next cycle, for the project of a task that has
\* ended: last_run = get_last_run(proj), then apply_async(run_build)
QueueBuilds(i) ==
    /\ i \in Tasks
    /\ procs[i].pc = "done"
    /\ ~procs[i].requeued
    /\ Set(i, QueuedTask(i, get_last_run(reg[procs[i].proj]), TRUE,
                  [wrote |-> procs[i].wrote,
                   start |-> reg[procs[i].proj].laststarttime,
                   finish |-> reg[procs[i].proj].lastcompletefinishtime]))
    /\ UNCHANGED <<flagfiles, reg, clock, reapvars, catvars, runvars>>

InitRounds ==
    /\ InitShared
    /\ procs = [i \in Tasks |->
           QueuedTask(i, get_last_run(reg[ProjOf(i)]), FALSE, NoPrev)]

NextRounds ==
    \E i \in Tasks :
        \/ RunBuildCheck(i)
        \/ SetLastBuildStart(i)
        \/ SetLastBuildComplete(i)
        \/ ReadSettings(i)
        \/ LockCheck(i)
        \/ LockCreate(i)
        \/ StageSuccess(i)
        \/ StageFault(i)
        \/ QueueBuilds(i)

SpecRounds == InitRounds /\ [][NextRounds]_vars

(***************************************************************************)
(* SpecBin: invocations of the dax.bin entry points by the executables.    *)
(***************************************************************************)
InitBin ==
    /\ InitShared
    /\ procs = [i \in Clis |-> InitProc(i)]

NextBin ==
    \E i \in Clis :
        \/ CliInvoke(i)
        \/ ReadSettings(i)
        \/ LockCheck(i)
        \/ LockCreate(i)
        \/ StageSuccess(i)
        \/ StageFault(i)
        \/ Kill(i)

SpecBin == InitBin /\ [][NextBin]_vars

(***************************************************************************)
(* The catalog.  refresh_settings deletes the settings documents of the    *)
(* settings directory and write_each writes one document per project the   *)
(* registry lists for this instance.                                       *)
(***************************************************************************)
User == <<"u">>

\* get_this_instance: '{}@{}'.format(this_user, this_host)
get_this_instance(this_user, gethostname) ==
    this_user \o <<"@">> \o ThisHost(gethostname)

\* the coordinator runs as user u on host n.d
this_instance == get_this_instance(User, HostND)

\* the instance identities a project record can name
InstanceNames == {this_instance, get_this_instance(User, HostR)}

\* the record of this instance in the instances project
InstanceSettings ==
    [main_processorlib |-> "plib",
     main_modulelib |-> "mlib",
     main_singularityimagedir |-> "simg",
     main_queuelimit |-> <<"1", "0">>,
     main_jobemailoptions |-> "a",
     main_xnathost |-> "xnat"]

general_defaults(ins) ==
    [processorlib |-> ins.main_processorlib,
     modulelib |-> ins.main_modulelib,
     singularity_imagedir |-> ins.main_singularityimagedir,
     attrs |-> [queue_limit |-> IntOfText(ins.main_queuelimit),
                job_email_options |-> ins.main_jobemailoptions,
                xnat_host |-> ins.main_xnathost]]

\* DaxProjectSettings()
NewSettings ==
    [general |-> <<>>, processors |-> <<>>, modules |-> <<>>,
     projects |-> <<>>]

load_defaults(settings) ==
    [settings EXCEPT !.general = general_defaults(InstanceSettings)]

dump(settings) ==
    settings.general @@
    [modules |-> settings.modules,
     yamlprocessors |-> settings.processors,
     projects |-> settings.projects]

\* load_module_names, load_processor_names: the forms of the registry
ModuleNames == <<"m">>
ProcessorNames == <<"p">>

\* The record of one module or processor form of one project: its
\* completion code, the fields whose names end in _file, the file path
\* and the argument lines.
FormOff == [complete |-> "0", file_keys |-> {"x_file"}, filepath |-> "f",
            args |-> <<>>]
FormOn == [FormOff EXCEPT !.complete = "2"]
FormOnArgs == [FormOn EXCEPT !.args = <<<<"k", ":", " ", "v">>>>]
FormNoFile == [FormOn EXCEPT !.file_keys = {}]

\* sep.join(list)
RECURSIVE join(_, _)
join(sep, list) ==
    IF list = <<>> THEN <<>>
    ELSE IF Len(list) = 1 THEN <<list[1]>>
    ELSE <<list[1], sep>> \o join(sep, Tail(list))

\* str.split(sep, 1): the text before the first separator and the text
\* after it, or the whole text when it holds no separator
SplitOnce(s, sep) ==
    LET at == {i \in 1..Len(s) : s[i] = sep}
    IN  IF at = {} THEN <<s>>
        ELSE LET first == CHOOSE i \in at : \A j \in at : i <= j
             IN  <<SubSeq(s, 1, first - 1), SubSeq(s, first + 1, Len(s))>>

\* the argument lines of a form record as a dictionary
RECURSIVE ParseArgs(_)
ParseArgs(rlist) ==
    IF rlist = <<>> THEN <<>>
    ELSE LET pieces == SplitOnce(Head(rlist), ":")
             key == pieces[1]
             val == StripWs(pieces[2])
         IN  (key :> val) @@ ParseArgs(Tail(rlist))

\* load_module_record, load_processor_record raise
RecordFault(rc_rec) ==
    \/ Cardinality(rc_rec.file_keys) # 1
    \/ \E i \in DOMAIN rc_rec.args : Len(SplitOnce(rc_rec.args[i], ":")) < 2

\* load_module_record, load_processor_record return
load_record(name, rc_rec) ==
    IF rc_rec.args # <<>>
    THEN [name |-> name, filepath |-> rc_rec.filepath,
          arguments |-> ParseArgs(rc_rec.args)]
    ELSE [name |-> name, filepath |-> rc_rec.filepath]

is_enabled(rc_rec) == rc_rec.complete = "2"

\* One loop of load_project over the module (or processor) names: the
\* records loaded, their names, and whether a record raised.
RECURSIVE LoadForms(_, _, _)
LoadForms(names, forms, acc) ==
    IF names = <<>> \/ acc.fault THEN acc
    ELSE LET name == Head(names)
             rc_rec == forms[name]
         IN  IF ~is_enabled(rc_rec)
             THEN LoadForms(Tail(names), forms, acc)
             ELSE IF RecordFault(rc_rec)
             THEN [acc EXCEPT !.fault = TRUE]
             ELSE LoadForms(Tail(names), forms,
                    [acc EXCEPT !.recs = Append(@, load_record(name, rc_rec)),
                                !.names = Append(@, name)])

NoForms == [fault |-> FALSE, recs |-> <<>>, names |-> <<>>]

load_project(settings, project) ==
    LET mods == LoadForms(ModuleNames, rc[project].modules, NoForms)
        procs_ == LoadForms(ProcessorNames, rc[project].processors, NoForms)
    IN  [fault |-> mods.fault \/ procs_.fault,
         settings |-> [settings EXCEPT !.modules = @ \o mods.recs,
                                       !.processors = @ \o procs_.recs],
         project |-> [project |-> project,
                      modules |-> join(",", mods.names),
                      yamlprocessors |-> join(",", procs_.names)]]

\* export_records of the name, instance and completion fields, in the
\* order the registry answers in
export_records(order) ==
    [i \in DOMAIN order |->
        [project_name |-> order[i],
         gen_daxinstance |-> rc[order[i]].gen_daxinstance,
         general_complete |-> rc[order[i]].general_complete]]

project_names(plist) ==
    LET mine == SelectSeq(plist,
                    LAMBDA x : x.gen_daxinstance = this_instance)
        enabled == SelectSeq(mine,
                    LAMBDA x : x.general_complete = "Complete")
    IN  [i \in DOMAIN enabled |-> enabled[i].project_name]

FILE_HEADER == "# This file generated by dax manager."

\* no file of that name in the settings directory
NoDoc == [header |-> "", stamp |-> NoTime, body |-> <<>>]

\* A variant of write_settings_file that puts the timestamp into the
\* YAML document as well.
write_settings_file_stamped(settings, timestamp) ==
    [header |-> FILE_HEADER, stamp |-> timestamp,
     body |-> dump(settings) @@ [generated |-> timestamp]]

write_settings_file(settings, timestamp) ==
    [header |-> FILE_HEADER, stamp |-> timestamp, body |-> dump(settings)]

\* A loop of write_each that loads every project into the one settings
\* object, with no copy of the defaults per project.
RECURSIVE WriteLoopShared(_, _, _, _)
WriteLoopShared(names, dir, default_settings, now) ==
    IF names = <<>> THEN [dir |-> dir, pc |-> "ok"]
    ELSE LET name == Head(names)
             loaded == load_project(default_settings, name)
             settings == [loaded.settings EXCEPT
                              !.projects = Append(@, loaded.project)]
         IN  IF loaded.fault THEN [dir |-> dir, pc |-> "fault"]
             ELSE WriteLoopShared(Tail(names),
                    [dir EXCEPT ![name] = write_settings_file(settings, now)],
                    settings, now)

\* The loop of write_each over the project names; it stops at the first
\* project whose record raises.
RECURSIVE WriteLoop(_, _, _, _)
WriteLoop(names, dir, default_settings, now) ==
    IF names = <<>> THEN [dir |-> dir, pc |-> "ok"]
    ELSE LET name == Head(names)
             loaded == load_project(default_settings, name)
             settings == [loaded.settings EXCEPT
                              !.projects = Append(@, loaded.project)]
         IN  IF loaded.fault THEN [dir |-> dir, pc |-> "fault"]
             ELSE WriteLoop(Tail(names),
                    [dir EXCEPT ![name] = write_settings_file(settings, now)],
                    default_settings, now)

write_each(dir, order, now) ==
    WriteLoop(project_names(export_records(order)), dir,
              load_defaults(NewSettings), now)

list_settings_files(dir) == {p \in DOMAIN dir : dir[p] # NoDoc}

\* A variant of refresh_settings that removes no file.
KeepSettingsFiles(dir) == dir

\* refresh_settings: os.remove of every listed file
DeleteSettingsFiles(dir) ==
    [p \in DOMAIN dir |->
        IF p \in list_settings_files(dir) THEN NoDoc ELSE dir[p]]

\* the orders in which the registry can list the projects
Orders ==
    {s \in [1..Cardinality(Proj) -> Proj] : \A p \in Proj : \E i \in DOMAIN s : s[i] = p}

\* cat: the outcome of the last regeneration ("none" once the registry
\* has been edited since), the timestamps of the last two regenerations
\* in a row that returned normally over the registry as it is, and the
\* projects whose document the last regeneration removed and did not
\* write again.
NoCat == [pc |-> "none", stamps |-> <<>>, removed |-> {}]

\* refresh_settings with the clock, the registry's listing order and the
\* registry's answer to the export given
Refresh(now, order, export) ==
        LET cleared == DeleteSettingsFiles(sdir)
            r == IF export = "raise" THEN [dir |-> cleared, pc |-> "fault"]
                 ELSE write_each(cleared, order, now)
        IN  /\ sdir' = r.dir
            /\ clock' = now
            /\ cat' = IF r.pc = "fault" THEN [NoCat EXCEPT !.pc = "fault"]
                      ELSE [pc |-> "ok",
                            stamps |-> IF cat.stamps = <<>> THEN <<now>>
                                       ELSE <<cat.stamps[Len(cat.stamps)], now>>,
                            removed |-> {p \in list_settings_files(sdir) :
                                            r.dir[p] = NoDoc}]

RefreshSettings ==
    /\ \E now \in Nows, order \in Orders, export \in {"ok", "raise"} :
           Refresh(now, order, export)
    /\ UNCHANGED <<flagfiles, reapvars, procs, reg, rc, runvars>>

\* the records a project can have in the registry
RcRecords ==
    [gen_daxinstance : InstanceNames,
     general_complete : {"Complete", "Incomplete"},
     modules : [{"m"} -> {FormOff, FormOn, FormNoFile}],
     processors : [{"p"} -> {FormOff, FormOnArgs}]]

\* somebody edits a project's record in the registry
RegistryEdit ==
    \E p \in Proj, rec \in RcRecords :
        /\ rec # rc[p]
        /\ rc' = [rc EXCEPT ![p] = rec]
        /\ cat' = NoCat
        /\ UNCHANGED <<flagfiles, reapvars, procs, reg, clock, sdir, runvars>>

InitCat ==
    /\ rc \in [Proj -> RcRecords]
    /\ sdir = [p \in Proj |-> NoDoc]
    /\ cat = NoCat
    /\ clock = 0
    /\ flagfiles = <<>>
    /\ ptable = <<>>
    /\ reap = ReapIdle(HostN)
    /\ deleted = {}
    /\ visited = {}
    /\ procs = <<>>
    /\ reg = <<>>
    /\ cyc = <<>>
    /\ pool = <<>>
    /\ dur = <<>>

NextCat ==
    \/ RefreshSettings
    \/ RegistryEdit

SpecCat == InitCat /\ [][NextCat]_vars

(***************************************************************************)
(* duration, called on two timestamp texts.  A text in RCDATEFORMAT is     *)
(* kept as its fields <<day, hour, minute, second>> of one month; any      *)
(* other text is one strptime raises ValueError on.                        *)
(***************************************************************************)
WellFormed(text) ==
    /\ Len(text) = 4
    /\ text[1] \in 1..31
    /\ text[2] \in 0..23
    /\ text[3] \in 0..59
    /\ text[4] \in 0..59

\* datetime.strptime(text, RCDATEFORMAT) as seconds, NoTime when it raises
strptime(text) ==
    IF WellFormed(text)
    THEN ((text[1] * 24 + text[2]) * 60 + text[3]) * 60 + text[4]
    ELSE NoTime

\* the texts duration is called on
TimeTexts ==
    {<<>>, <<1, 0, 0>>, <<1, 24, 0, 0>>, <<1, 0, 60, 0>>,
     <<1, 0, 0, 0>>, <<1, 0, 5, 0>>, <<1, 0, 5, 59>>, <<1, 0, 59, 59>>,
     <<1, 1, 0, 0>>, <<1, 1, 5, 0>>, <<1, 23, 59, 59>>, <<2, 1, 0, 0>>,
     <<3, 0, 0, 1>>}

InitDur ==
    /\ dur \in [pc : {"call"}, start_time : TimeTexts,
                finish_time : TimeTexts, out : {<<"unset">>}]
    /\ flagfiles = <<>>
    /\ ptable = <<>>
    /\ reap = ReapIdle(HostN)
    /\ deleted = {}
    /\ visited = {}
    /\ procs = <<>>
    /\ reg = <<>>
    /\ clock = 0
    /\ rc = <<>>
    /\ sdir = <<>>
    /\ cat = <<>>
    /\ cyc = <<>>
    /\ pool = <<>>

\* last_duration = self.duration(last_start, last_finish)
DurationCall ==
    /\ dur.pc = "call"
    /\ dur' = [dur EXCEPT !.pc = "returned",
                  !.out = duration(strptime(dur.start_time),
                                   strptime(dur.finish_time))]
    /\ UNCHANGED <<flagfiles, reapvars, procs, reg, clock, catvars, cyc, pool>>

NextDur == DurationCall

SpecDur == InitDur /\ [][NextDur]_vars

(***************************************************************************)
(* One invocation of the manager (__main__): clean_lockfiles, DaxManager() *)
(* with its refresh_settings, then run(): the builds go to the pool, the   *)
(* coordinator calls update and launch project by project, starts the      *)
(* upload process and joins it, then joins the pool.                       *)
(***************************************************************************)
num_build_threads == 10

\* the build task of a project, and the tasks of one invocation
TaskOf(p) ==
    CHOOSE i \in Tasks :
        ProjOf(i) = p /\ \A j \in Tasks : ProjOf(j) = p => i <= j
CycTasks == {TaskOf(p) : p \in Proj}

\* the coordinator's own calls of update_tasks and launch_jobs
StageSlot == NumTasks + 1

\* a pool worker is executing run_build for the task
Running(i) == procs[i].pc \notin {"unsubmitted", "queued", "done", "killed"}

\* an exception leaves __main__: the interpreter exits and the pool's
\* finalizer terminates the workers, whatever they are doing
Terminated(ps) ==
    [i \in DOMAIN ps |->
        IF i \in CycTasks /\ ps[i].pc \notin {"unsubmitted", "done"}
        THEN [ps[i] EXCEPT !.pc = "killed"]
        ELSE ps[i]]

Abort(cause) ==
    /\ cyc' = [cyc EXCEPT !.pc = "aborted", !.out = cause]
    /\ procs' = Terminated(procs)

\* A manager that goes on to run() when refresh_settings has raised.
AfterRegenerationCaught(outcome) == "queue"

\* __main__ has no try block: an exception of DaxManager() leaves it
AfterRegeneration(outcome) == IF outcome = "ok" THEN "queue" ELSE "aborted"

\* A manager that makes its DaxManager before clean_lockfiles is over.
CycMakeManagerEarly ==
    /\ cyc.pc = "clean"
    /\ \E now \in Nows, order \in Orders, export \in {"ok", "raise"} :
           /\ Refresh(now, order, export)
           /\ IF AfterRegeneration(cat'.pc) = "queue"
              THEN cyc' = [cyc EXCEPT !.pc = "queue", !.i = 1,
                              !.list = SelectSeq(order,
                                           LAMBDA p : sdir'[p] # NoDoc)]
              ELSE cyc' = [cyc EXCEPT !.pc = "aborted", !.out = "regeneration"]
    /\ UNCHANGED <<flagfiles, reapvars, procs, reg, rc, pool, dur>>

\* manager = DaxManager(...): refresh_settings, once clean_lockfiles has
\* returned; an exception of write_each leaves __main__
CycMakeManager ==
    /\ cyc.pc = "clean"
    /\ reap.pc = "done"
    /\ \E now \in Nows, order \in Orders, export \in {"ok", "raise"} :
           /\ Refresh(now, order, export)
           /\ IF AfterRegeneration(cat'.pc) = "queue"
              THEN cyc' = [cyc EXCEPT !.pc = "queue", !.i = 1,
                              !.list = SelectSeq(order,
                                           LAMBDA p : sdir'[p] # NoDoc)]
              ELSE cyc' = [cyc EXCEPT !.pc = "aborted", !.out = "regeneration"]
    /\ UNCHANGED <<flagfiles, reapvars, procs, reg, rc, pool, dur>>

\* queue_builds, one turn of the loop: get_last_run reads the registry,
\* apply_async puts the task on the pool's queue and returns
CycQueue ==
    /\ cyc.pc = "queue"
    /\ cyc.i <= Len(cyc.list)
    /\ \E export \in {"ok", "raise"} :
           IF export = "ok"
           THEN /\ cyc' = [cyc EXCEPT !.i = @ + 1,
                              !.submitted = @ \cup {cyc.list[cyc.i]}]
                /\ procs' = [procs EXCEPT
                       ![TaskOf(cyc.list[cyc.i])].pc = "queued"]
           ELSE Abort("get_last_run")
    /\ UNCHANGED <<flagfiles, reapvars, reg, clock, catvars, pool, dur>>

\* build_pool.close(), then the update loop
CycClose ==
    /\ cyc.pc = "queue"
    /\ cyc.i > Len(cyc.list)
    /\ cyc' = [cyc EXCEPT !.pc = IF cyc.list = <<>> THEN "upload" ELSE "update",
                  !.i = 1]
    /\ UNCHANGED <<flagfiles, reapvars, procs, reg, clock, catvars, pool, dur>>

\* A run() whose launch of a project comes before its update.
StageOfLaunchFirst(pc) == IF pc = "update" THEN "LAUNCH" ELSE "UPDATE"

\* the entry point the loop the coordinator is in calls
StageOf(pc) == IF pc = "update" THEN "UPDATE" ELSE "LAUNCH"

\* A run() that calls a project's update and launch only when the
\* project's build task has ended.
CycCallAfterBuild ==
    /\ cyc.pc \in {"update", "launch"}
    /\ cyc.i <= Len(cyc.list)
    /\ procs[TaskOf(cyc.list[cyc.i])].pc = "done"
    /\ procs' = [procs EXCEPT ![StageSlot] =
           [InitProc(StageSlot) EXCEPT !.pc = "read_settings",
               !.stage = StageOf(cyc.pc), !.proj = cyc.list[cyc.i]]]
    /\ cyc' = [cyc EXCEPT !.pc = IF cyc.pc = "update" THEN "in_update"
                                 ELSE "in_launch",
                  !.started = @ \cup {<<StageOf(cyc.pc), cyc.list[cyc.i]>>}]
    /\ UNCHANGED <<flagfiles, reapvars, reg, clock, catvars, pool, dur>>

\* run_update / run_launch: the coordinator calls the entry point itself
CycCall ==
    /\ cyc.pc \in {"update", "launch"}
    /\ cyc.i <= Len(cyc.list)
    /\ procs' = [procs EXCEPT ![StageSlot] =
           [InitProc(StageSlot) EXCEPT !.pc = "read_settings",
               !.stage = StageOf(cyc.pc), !.proj = cyc.list[cyc.i]]]
    /\ cyc' = [cyc EXCEPT !.pc = IF cyc.pc = "update" THEN "in_update"
                                 ELSE "in_launch",
                  !.started = @ \cup {<<StageOf(cyc.pc), cyc.list[cyc.i]>>}]
    /\ UNCHANGED <<flagfiles, reapvars, reg, clock, catvars, pool, dur>>

\* A coordinator that catches what an entry point raises and goes on.
AfterStageCaught(out) == "ok"

\* what the coordinator does with the end of an entry point: run_update
\* and run_launch have no try block, an exception leaves run()
AfterStage(out) == IF out = "ok" THEN "ok" ELSE "raise"

\* the entry point has returned or raised
CycReturn ==
    /\ cyc.pc \in {"in_update", "in_launch"}
    /\ procs[StageSlot].pc = "done"
    /\ IF AfterStage(procs[StageSlot].out) = "ok"
       THEN /\ cyc' = [cyc EXCEPT
                   !.returned = @ \cup {<<procs[StageSlot].stage,
                                          procs[StageSlot].proj>>},
                   !.i = IF cyc.i < Len(cyc.list) THEN cyc.i + 1 ELSE 1,
                   !.pc = IF cyc.i < Len(cyc.list)
                          THEN (IF cyc.pc = "in_update" THEN "update"
                                ELSE "launch")
                          ELSE (IF cyc.pc = "in_update" THEN "launch"
                                ELSE "upload")]
            /\ procs' = procs
       ELSE Abort(procs[StageSlot].out)
    /\ UNCHANGED <<flagfiles, reapvars, reg, clock, catvars, pool, dur>>

\* upload_process.start()
CycUploadStart ==
    /\ cyc.pc = "upload"
    /\ cyc' = [cyc EXCEPT !.pc = "upload_join", !.upload = "running",
                  !.uploads = @ + 1]
    /\ UNCHANGED <<flagfiles, reapvars, procs, reg, clock, catvars, pool, dur>>

\* the upload process ends: run_upload has returned or raised
UploadExit ==
    /\ cyc.upload = "running"
    /\ \E end \in {"returned", "raised"} :
           cyc' = [cyc EXCEPT !.upload = end]
    /\ UNCHANGED <<flagfiles, reapvars, procs, reg, clock, catvars, pool, dur>>

\* A coordinator that does not wait for the upload process.
CycUploadJoinNoWait ==
    /\ cyc.pc = "upload_join"
    /\ cyc' = [cyc EXCEPT !.pc = "pool_join"]
    /\ UNCHANGED <<flagfiles, reapvars, procs, reg, clock, catvars, pool, dur>>

\* upload_process.join() returns
CycUploadJoin ==
    /\ cyc.pc = "upload_join"
    /\ cyc.upload \in {"returned", "raised"}
    /\ cyc' = [cyc EXCEPT !.pc = "pool_join"]
    /\ UNCHANGED <<flagfiles, reapvars, procs, reg, clock, catvars, pool, dur>>

\* build_pool.join() returns: every task handed to the pool has ended
CycPoolJoin ==
    /\ cyc.pc = "pool_join"
    /\ \A p \in cyc.submitted : procs[TaskOf(p)].pc = "done"
    /\ cyc' = [cyc EXCEPT !.pc = "done"]
    /\ UNCHANGED <<flagfiles, reapvars, procs, reg, clock, catvars, pool, dur>>

\* a free worker of the pool takes a queued task
TaskStart(i) ==
    /\ procs[i].pc = "queued"
    /\ Cardinality({j \in CycTasks : Running(j)}) < num_build_threads
    /\ Set(i, [procs[i] EXCEPT !.pc = "run_build"])
    /\ UNCHANGED <<flagfiles, reg, clock, reapvars, catvars, runvars>>

\* the registry's records at the start of an invocation: A is listed for
\* this instance with its module enabled; B is listed like A, or for
\* another instance, or with a module record that has no _file field
CycRecord(modform, instance) ==
    [gen_daxinstance |-> instance, general_complete |-> "Complete",
     modules |-> [n \in {"m"} |-> modform],
     processors |-> [n \in {"p"} |-> FormOff]]

CycRcs ==
    {[p \in Proj |-> IF p = "A" THEN CycRecord(FormOn, this_instance) ELSE b] :
        b \in {CycRecord(FormOn, this_instance),
               CycRecord(FormOn, get_this_instance(User, HostR)),
               CycRecord(FormNoFile, this_instance)}}

\* the document an earlier invocation wrote for a project that had no
\* module and no processor enabled then
StaleDoc(p) ==
    write_settings_file(
        [load_defaults(NewSettings) EXCEPT !.projects =
            <<[project |-> p, modules |-> <<>>, yamlprocessors |-> <<>>]>>],
        0)

\* the lock file an earlier invocation on this host left behind for A's
\* build when its process 1 was killed
LeftLock(gethostname) == LockText(ThisHost(gethostname), 1)

InitCycle ==
    /\ reap \in {ReapIdle(HostN), ReapIdle(HostNB)}
    /\ flagfiles = [k \in Proj \X Stages |->
                        IF k = FlagFile("A", "BUILD") THEN LeftLock(reap.host)
                        ELSE NoFile]
    /\ ptable \in {[p \in Pids |-> IF p = 1 THEN x ELSE "dead"] :
                      x \in {"dead", "other"}}
    /\ deleted = {}
    /\ visited = {}
    /\ rc \in CycRcs
    /\ sdir = [p \in Proj |-> IF p = "B" THEN StaleDoc(p) ELSE NoDoc]
    /\ cat = NoCat
    /\ clock = 0
    /\ reg = [p \in Proj |-> EmptyRecord]
    /\ procs = [i \in CycTasks \cup {StageSlot} |->
                   IF i \in CycTasks
                   THEN [InitProc(i) EXCEPT !.pc = "unsubmitted"]
                   ELSE InitProc(i)]
    /\ cyc = [pc |-> "clean", list |-> <<>>, i |-> 1, submitted |-> {},
              started |-> {}, returned |-> {}, upload |-> "none",
              uploads |-> 0, out |-> "none"]
    /\ pool = <<>>
    /\ dur = <<>>

Coordinator ==
    \/ ReapList
    \/ ReapOpen
    \/ ReapKill
    \/ ReapRemove
    \/ ReapReturn
    \/ CycMakeManager
    \/ CycQueue
    \/ CycClose
    \/ CycCall
    \/ CycReturn
    \/ CycUploadStart
    \/ CycUploadJoin
    \/ CycPoolJoin

EntryPoint(i) ==
    \/ ReadSettings(i)
    \/ LockCheck(i)
    \/ LockCreate(i)
    \/ StageSuccess(i)
    \/ StageFault(i)

Worker(i) ==
    \/ TaskStart(i)
    \/ RunBuildCheck(i)
    \/ SetLastBuildStart(i)
    \/ SetLastBuildComplete(i)
    \/ EntryPoint(i)

NextCycle ==
    \/ Coordinator
    \/ EntryPoint(StageSlot)
    \/ UploadExit
    \/ \E i \in CycTasks : Worker(i)

SpecCycle == InitCycle /\ [][NextCycle]_vars

(***************************************************************************)
(* run() seen from its build pool, with more projects in the settings list *)
(* than the pool has workers.  The tasks are counted: submitted and        *)
(* waiting, being executed by a worker, ended.  The coordinator's update   *)
(* and launch loops and its upload are one step that returns or raises.    *)
(***************************************************************************)
MaxProjects == 11

\* an exception leaves run(): the interpreter exits and the pool's
\* finalizer terminates the workers
PoolAbort(cause) ==
    pool' = [pool EXCEPT !.pc = "aborted", !.out = cause,
                !.killed = pool.queued + pool.running,
                !.queued = 0, !.running = 0]

\* queue_builds, one turn of the loop: get_last_run, then apply_async
PoolSubmit ==
    /\ pool.pc = "queue"
    /\ pool.i < pool.n
    /\ \E export \in {"ok", "raise"} :
           IF export = "ok"
           THEN pool' = [pool EXCEPT !.i = @ + 1, !.queued = @ + 1]
           ELSE PoolAbort("get_last_run")
    /\ UNCHANGED <<flagfiles, reapvars, procs, reg, clock, catvars, cyc, dur>>

\* build_pool.close()
PoolClose ==
    /\ pool.pc = "queue"
    /\ pool.i = pool.n
    /\ pool' = [pool EXCEPT !.pc = "stages"]
    /\ UNCHANGED <<flagfiles, reapvars, procs, reg, clock, catvars, cyc, dur>>

\* the update loop, the launch loop and the upload: they return, or an
\* entry point's exception leaves run()
PoolStages ==
    /\ pool.pc = "stages"
    /\ \E end \in {"ok", "raise"} :
           IF end = "ok" THEN pool' = [pool EXCEPT !.pc = "pool_join"]
           ELSE PoolAbort("stage")
    /\ UNCHANGED <<flagfiles, reapvars, procs, reg, clock, catvars, cyc, dur>>

\* build_pool.join() returns
PoolJoin ==
    /\ pool.pc = "pool_join"
    /\ pool.queued = 0
    /\ pool.running = 0
    /\ pool' = [pool EXCEPT !.pc = "done"]
    /\ UNCHANGED <<flagfiles, reapvars, procs, reg, clock, catvars, cyc, dur>>

\* A pool that starts a process for every task it is handed.
WorkerTakeUnbounded ==
    /\ pool.queued > 0
    /\ pool' = [pool EXCEPT !.queued = @ - 1, !.running = @ + 1]
    /\ UNCHANGED <<flagfiles, reapvars, procs, reg, clock, catvars, cyc, dur>>

\* Pool(processes=num_build_threads): a worker that is free takes the
\* next task
WorkerTake ==
    /\ pool.queued > 0
    /\ pool.running < num_build_threads
    /\ pool' = [pool EXCEPT !.queued = @ - 1, !.running = @ + 1]
    /\ UNCHANGED <<flagfiles, reapvars, procs, reg, clock, catvars, cyc, dur>>

\* run_build returns (the build done or skipped) or raises; the worker
\* hands the result or the exception back and is free again
WorkerEnd ==
    /\ pool.running > 0
    /\ \E end \in {"returned", "raised"} :
           pool' = [pool EXCEPT !.running = @ - 1, !.ended = @ + 1,
                       !.raised = IF end = "raised" THEN @ + 1 ELSE @]
    /\ UNCHANGED <<flagfiles, reapvars, procs, reg, clock, catvars, cyc, dur>>

InitPool ==
    /\ pool \in [pc : {"queue"}, n : 0..MaxProjects, i : {0}, queued : {0},
                 running : {0}, ended : {0}, raised : {0}, killed : {0},
                 out : {"none"}]
    /\ flagfiles = <<>>
    /\ ptable = <<>>
    /\ reap = ReapIdle(HostN)
    /\ deleted = {}
    /\ visited = {}
    /\ procs = <<>>
    /\ reg = <<>>
    /\ clock = 0
    /\ rc = <<>>
    /\ sdir = <<>>
    /\ cat = <<>>
    /\ cyc = <<>>
    /\ dur = <<>>

PoolCoordinator ==
    \/ PoolSubmit
    \/ PoolClose
    \/ PoolStages
    \/ PoolJoin

PoolWorkers ==
    \/ WorkerTake
    \/ WorkerEnd

NextPool ==
    \/ PoolCoordinator
    \/ PoolWorkers

SpecPool == InitPool /\ [][NextPool]_vars

\* every call returns or raises in finite time: the coordinator and the
\* workers each take the step they can take
SpecPoolFair ==
    /\ InitPool
    /\ [][NextPool]_vars
    /\ WF_vars(PoolCoordinator)
    /\ WF_vars(PoolWorkers)

(***************************************************************************)
(* Claims about stale-lock reaping (SpecReap).                             *)
(***************************************************************************)
\* The lock text records this host and a process id that is confirmed not
\* running.
ShouldReap(text, this_host) ==
    \E h \in ShortHosts, p \in 0..MaxPid :
        /\ text = LockText(h, p)
        /\ h = this_host
        /\ KillOutcome(p) = "esrch"

\* C3: once a reap pass has returned, a lock file has been deleted if and
\* only if its recorded host is the local host and its recorded process id
\* is confirmed not running, whatever the lock text, host names containing
\* "-" included.
C3_ReapIffLocalAndDead ==
    reap.pc = "done" =>
        \A f \in DOMAIN flagfiles :
            /\ \A d \in deleted :
                   d[1] = f => ShouldReap(d[2], ThisHost(reap.host))
            /\ flagfiles[f] # NoFile =>
                   ~ShouldReap(flagfiles[f], ThisHost(reap.host))

\* C3, the case that fails: a pass on host "n-b" has returned and left the
\* lock of a dead process of host "n-b" in place.
C3_DashHostLeft ==
    /\ reap.pc = "done"
    /\ ThisHost(reap.host) = HostNB
    /\ \E f \in DOMAIN flagfiles :
           /\ f \in visited
           /\ flagfiles[f] # NoFile
           /\ ShouldReap(flagfiles[f], HostNB)

\* C4: a lock file is deleted only when the liveness check of its process
\* id answered "no such process"; a permission-denied or successful check
\* leaves the file, and the pass goes on to every listed lock file.
C4_UnknownIsHeld ==
    /\ \A d \in deleted :
           \E h \in ShortHosts, p \in 0..MaxPid :
               /\ d[2] = LockText(h, p)
               /\ KillOutcome(p) = "esrch"
    /\ reap.pc = "done" =>
           \A f \in DOMAIN flagfiles :
               (flagfiles[f] # NoFile \/ \E d \in deleted : d[1] = f)
                   => f \in visited

\* C4 witness: a pass has returned, having left the lock of a process of
\* this host whose check was refused for lack of permission, and having
\* gone on to delete a later lock file.
C4_Witness ==
    /\ reap.pc = "done"
    /\ \E f \in DOMAIN flagfiles, p \in Pids :
           /\ flagfiles[f] = LockText(ThisHost(reap.host), p)
           /\ KillOutcome(p) = "eperm"
           /\ f \in visited
           /\ \E d \in deleted : d[1] > f

(***************************************************************************)
(* Claims about lock files and build bookkeeping (Spec, SpecBin).          *)
(***************************************************************************)
\* the lock file of process i's stage holds the text process i wrote
HoldsOwnLock(i) == flagfiles[KeyOf(i)] = LockText(HostOf(i), PidOf(i))

\* C1: no two processes execute the same stage of the same project at the
\* same time.
C1_MutualExclusion ==
    \A i, j \in DOMAIN procs :
        (i # j /\ procs[i].pc = "stage" /\ procs[j].pc = "stage")
            => KeyOf(i) # KeyOf(j)

\* C2: a build task that found its project's build lock file present has
\* ended as skipped, has not entered dax.bin.build, has written no
\* bookkeeping, and stays so whatever happens to the lock afterwards.
C2_LockedBuildSkipped ==
    \A i \in DOMAIN procs :
        procs[i].saw =>
            /\ procs[i].pc = "done"
            /\ procs[i].out = "skipped"
            /\ procs[i].doc = Unread
            /\ procs[i].acq = "none"
            /\ procs[i].wrote = {}

\* C2 witness: a task was skipped for a held lock and the lock has been
\* released since.
C2_Witness ==
    \E i \in DOMAIN procs :
        /\ procs[i].saw
        /\ procs[i].out = "skipped"
        /\ ~is_locked(procs[i].proj)

\* C7: with A's lock absent and B's lock held when their tasks checked,
\* and the registry accepting every import, A's task on the document the
\* catalog generated has recorded a start and a finish once it has ended,
\* and B's task has recorded nothing.
C7_AbuiltBskipped ==
    \A a, b \in DOMAIN procs :
        ( /\ procs[a].proj = "A" /\ procs[b].proj = "B"
          /\ procs[a].pc = "done" /\ procs[b].pc = "done"
          /\ ~procs[a].saw /\ procs[b].saw
          /\ procs[a].doc = DumpKeys
          /\ procs[a].out # "DaxManagerError" )
            => /\ procs[a].wrote = {"start", "finish"}
               /\ procs[b].wrote = {}

\* C7, the case that fails: A's task has ended on the DaxError that
\* check_default_keys raises for the generated document, with a start and
\* no finish; B's task was skipped and wrote nothing.
C7_Witness ==
    \E a, b \in DOMAIN procs :
        /\ procs[a].proj = "A" /\ procs[b].proj = "B"
        /\ ~procs[a].saw /\ procs[b].saw
        /\ procs[a].doc = DumpKeys
        /\ procs[a].out = "DaxError"
        /\ procs[a].wrote = {"start"}
        /\ procs[b].out = "skipped"
        /\ procs[b].wrote = {}
        /\ reg["B"] = EmptyRecord

C9_BuildFaultReleasesLock ==
    \A i \in DOMAIN procs :
        ( /\ procs[i].stage = "BUILD"
          /\ procs[i].fault # "none"
          /\ procs[i].pc = "done" )
            => ~HoldsOwnLock(i)

\* C9, the case that fails: the launcher's build raised an exception
\* without a message attribute, the invocation has ended, and its lock
\* file is still there.
C9_Witness ==
    \E i \in DOMAIN procs :
        /\ procs[i].stage = "BUILD"
        /\ procs[i].fault = "nomessage"
        /\ procs[i].pc = "done"
        /\ HoldsOwnLock(i)

\* C10: when the launcher's update or launch raised, the entry point has
\* caught the fault and returned normally, and the stage's lock file it
\* created is gone.
C10_StageFaultCaughtAndReleased ==
    \A i \in DOMAIN procs :
        ( /\ procs[i].stage \in {"UPDATE", "LAUNCH"}
          /\ procs[i].fault # "none" )
            => /\ procs[i].pc = "done"
               /\ procs[i].out = "ok"
               /\ ~HoldsOwnLock(i)

\* C10, the case that fails: update_tasks or launch_jobs has ended on the
\* AttributeError raised inside its except clause, and the lock file is
\* still there.
C10_Witness ==
    \E i \in DOMAIN procs :
        /\ procs[i].stage \in {"UPDATE", "LAUNCH"}
        /\ procs[i].fault = "nomessage"
        /\ procs[i].out = "AttributeError"
        /\ HoldsOwnLock(i)

(***************************************************************************)
(* Claims about the catalog (SpecCat).                                     *)
(***************************************************************************)
\* the registry lists the project for another instance, or not as complete
Excluded(p) ==
    \/ rc[p].gen_daxinstance # this_instance
    \/ rc[p].general_complete # "Complete"

\* C5: after a catalog regeneration that returned normally (and until the
\* registry is edited again), a project whose recorded instance is not
\* this instance, or whose status is not Complete, has no settings
\* document in the settings directory.
C5_ExcludedHasNoDocument ==
    cat.pc = "ok" => \A p \in Proj : Excluded(p) => sdir[p] = NoDoc

\* C5 witness: a regeneration has returned normally having removed, and
\* not written again, the document an earlier cycle wrote for a project
\* that is excluded now.
C5_Witness ==
    /\ cat.pc = "ok"
    /\ \E p \in cat.removed : Excluded(p) /\ sdir[p] = NoDoc

\* the documents of a directory without their timestamp lines
Bodies(dir) ==
    [p \in DOMAIN dir |-> [header |-> dir[p].header, body |-> dir[p].body]]

\* C6: a regeneration that returns normally right after another one that
\* did, with no edit of the registry in between, leaves the same set of
\* documents, each with the content it had, the timestamp line apart.
C6_RegenerationIdempotent ==
    [][(cat.pc = "ok" /\ cat'.pc = "ok") => Bodies(sdir') = Bodies(sdir)]_vars

\* C6 witness: two regenerations in a row over the same registry have
\* returned normally with different timestamps, and the directory holds a
\* document with a module and a processor with arguments.
C6_Witness ==
    /\ cat.pc = "ok"
    /\ Len(cat.stamps) = 2
    /\ cat.stamps[1] # cat.stamps[2]
    /\ \E p \in Proj :
          /\ sdir[p] # NoDoc
          /\ sdir[p].stamp = cat.stamps[2]
          /\ sdir[p].body.modules # <<>>
          /\ sdir[p].body.yamlprocessors # <<>>

(***************************************************************************)
(* Claims about duration (SpecDur).                                        *)
(***************************************************************************)
\* the whole hours and the remaining whole minutes of e seconds
WholeHours(e) == CHOOSE h \in 0..(31 * 24) : h * 3600 <= e /\ e < (h + 1) * 3600
RestMinutes(e) ==
    CHOOSE m \in 0..59 :
        /\ WholeHours(e) * 3600 + m * 60 <= e
        /\ e < WholeHours(e) * 3600 + (m + 1) * 60

\* C18: duration always returns; for two well-formed timestamps, the
\* finish not before the start, it returns "<H> hrs <M> mins" when the
\* whole hours H elapsed are more than 0 and "<M> mins" otherwise, M the
\* remaining whole minutes; when either timestamp is malformed it returns
\* None.
C18_DurationFormat ==
    dur.pc = "returned" =>
        LET s == dur.start_time
            f == dur.finish_time
            e == strptime(f) - strptime(s)
        IN  /\ (WellFormed(s) /\ WellFormed(f) /\ e >= 0) =>
                  dur.out = IF WholeHours(e) > 0
                            THEN <<WholeHours(e), "hrs", RestMinutes(e), "mins">>
                            ELSE <<RestMinutes(e), "mins">>
            /\ (~WellFormed(s) \/ ~WellFormed(f)) => dur.out = <<>>
            /\ (s = <<1, 0, 0, 0>> /\ f = <<1, 0, 5, 0>>) =>
                  dur.out = <<5, "mins">>

\* C18 witness: duration has returned "1 hrs 5 mins" for timestamps one
\* hour and five minutes apart.
C18_Witness ==
    /\ dur.pc = "returned"
    /\ dur.start_time = <<1, 0, 0, 0>>
    /\ dur.finish_time = <<1, 1, 5, 0>>
    /\ dur.out = <<1, "hrs", 5, "mins">>

(***************************************************************************)
(* Claims about reading the settings document (SpecBin).                   *)
(***************************************************************************)
\* C19: an entry point that read a settings document lacking one of the
\* keys projects, attrs, modules, processors, yamlprocessors has ended on
\* DaxError without calling the launcher: it made no attempt on the lock
\* and created no lock file.
C19_MissingKeyFailsFast ==
    \A i \in DOMAIN procs :
        (procs[i].doc # Unread /\ \E key \in RequiredKeys : key \notin procs[i].doc)
            => /\ procs[i].pc = "done"
               /\ procs[i].out = "DaxError"
               /\ procs[i].acq = "none"

\* C19 witness: an update_tasks call read a document with no attrs key and
\* ended on DaxError, the update lock file of its project absent.
C19_Witness ==
    \E i \in DOMAIN procs :
        /\ procs[i].stage = "UPDATE"
        /\ procs[i].doc = RequiredKeys \ {"attrs"}
        /\ procs[i].out = "DaxError"
        /\ flagfiles[KeyOf(i)] = NoFile

(***************************************************************************)
(* Claims about one invocation of the manager (SpecCycle).                 *)
(***************************************************************************)
\* the projects the registry lists for this instance as complete
Eligible == {p \in Proj : ~Excluded(p)}

\* run() has begun a build submission, a stage call or the upload
CycleAtWork ==
    cyc.submitted # {} \/ cyc.started # {} \/ cyc.uploads > 0

\* C11: no fault of a project's stage invocation (a DaxError of
\* read_settings, an exception the entry point lets out) ever ends the
\* cycle; a cycle that has ended early ended on a fault of the catalog
\* regeneration.
C11_StageFaultNeverAborts ==
    cyc.pc = "aborted" => cyc.out \notin {"DaxError", "AttributeError"}

\* C11, the case that fails: A's update_tasks read a document with a key
\* missing, the DaxError left run(): B's update, both launches and the
\* upload never ran.
C11_Witness ==
    /\ cyc.pc = "aborted"
    /\ cyc.out = "DaxError"
    /\ cyc.list = <<"A", "B">>
    /\ cyc.started = {<<"UPDATE", "A">>}
    /\ cyc.uploads = 0

\* C12: the catalog regeneration has begun only after clean_lockfiles has
\* returned; and when a build has been submitted, or an update, a launch
\* or the upload has been started, the regeneration has returned normally:
\* the directory holds exactly one document per eligible project, each
\* written by this regeneration.
C12_ReapThenRegenerateThenRun ==
    /\ cat.pc # "none" => reap.pc = "done"
    /\ CycleAtWork =>
          /\ cat.pc = "ok"
          /\ \A p \in Proj :
                IF Excluded(p) THEN sdir[p] = NoDoc
                ELSE /\ sdir[p] # NoDoc
                     /\ sdir[p] # StaleDoc(p)
                     /\ sdir[p].stamp = cat.stamps[Len(cat.stamps)]

\* C12 witness: the pass has removed a stale lock, the regeneration has
\* removed B's old document and written A's, and A's build is submitted.
C12_Witness ==
    /\ deleted # {}
    /\ "B" \in cat.removed
    /\ sdir["A"] # NoDoc
    /\ "A" \in cyc.submitted

\* C13: when the catalog regeneration has raised, the invocation has
\* ended: no build was submitted, no update or launch was called and no
\* upload process was started.
C13_RegenerationFaultAborts ==
    cat.pc = "fault" =>
        /\ cyc.pc = "aborted"
        /\ ~CycleAtWork
        /\ \A i \in CycTasks : procs[i].pc = "unsubmitted"
        /\ procs[StageSlot].pc = "idle"

\* C13 witness: the regeneration wrote A's document, then raised on B's
\* module record, which has no _file field.
C13_Witness ==
    /\ cat.pc = "fault"
    /\ cyc.pc = "aborted"
    /\ sdir["A"] # NoDoc
    /\ RecordFault(rc["B"].modules["m"])

\* C14: when a project's launch_jobs has been called, its update_tasks has
\* returned.
C14_UpdateBeforeLaunch ==
    \A p \in Proj :
        <<"LAUNCH", p>> \in cyc.started => <<"UPDATE", p>> \in cyc.returned

\* C14 witness: with A and B in the list, B's launch has been called.
C14_Witness ==
    /\ Len(cyc.list) = 2
    /\ <<"LAUNCH", "B">> \in cyc.started
    /\ <<"UPDATE", "B">> \in cyc.returned

C20_NextCycleReapsKilledLock ==
    (reap.pc = "done" /\ ptable[1] = "dead") =>
        /\ <<FlagFile("A", "BUILD"), LeftLock(reap.host)>> \in deleted
        /\ procs[TaskOf("A")].out # "skipped"

\* C20, the case that fails: on host n-b the pass has returned and left
\* the lock of the dead process, and A's build was skipped for it.
C20_Witness ==
    /\ reap.host = HostNB
    /\ reap.pc = "done"
    /\ ptable[1] = "dead"
    /\ deleted = {}
    /\ flagfiles[FlagFile("A", "BUILD")] = LeftLock(HostNB)
    /\ procs[TaskOf("A")].out = "skipped"

(***************************************************************************)
(* Claims about the build pool (SpecPool, SpecPoolFair).                   *)
(***************************************************************************)
\* C16: run() has returned only when every task it submitted has ended
\* (returned or raised); and, every call returning or raising in finite
\* time, run() eventually returns.
C16_ReturnsAfterAllBuilds ==
    /\ [](pool.pc = "done" => (pool.i = pool.n /\ pool.ended = pool.i))
    /\ <>(pool.pc = "done")

\* C16, the case that fails: with more projects than workers, run() was
\* left by an exception while tasks were waiting and running; it never
\* returns.
C16_Witness ==
    /\ pool.pc = "aborted"
    /\ pool.n > num_build_threads
    /\ pool.killed > 0
    /\ pool.ended < pool.i

\* C16, what does hold: run() returns only after every submitted task has
\* ended, and it eventually returns or is left by an exception.
C16_EndsAfterAllBuilds ==
    /\ [](pool.pc = "done" => (pool.i = pool.n /\ pool.ended = pool.i))
    /\ <>(pool.pc \in {"done", "aborted"})

\* C17: never more than 10 build tasks are being executed; and while
\* queue_builds has projects left, its next submission can be made,
\* whatever the tasks already submitted are doing.
C17_BoundedPoolNonBlockingSubmit ==
    /\ pool.running <= 10
    /\ (pool.pc = "queue" /\ pool.i < pool.n) => ENABLED PoolSubmit

\* C17 witness: an eleventh task has been submitted while ten are being
\* executed and none has ended.
C17_Witness ==
    /\ pool.i = 11
    /\ pool.running = 10
    /\ pool.queued = 1
    /\ pool.ended = 0

\* C21: update and launch are not gated on the builds: whenever the
\* coordinator is at a project's update or launch, the call can be made,
\* whatever state the project's build task is in.
C21_StagesNotGatedOnBuild ==
    (cyc.pc \in {"update", "launch"} /\ cyc.i <= Len(cyc.list))
        => ENABLED CycCall

\* C21 witness: a pool worker executes the build of a project, holding its
\* build lock, while the coordinator executes the update of the same
\* project, holding its update lock.
C21_Witness ==
    \E p \in Proj :
        /\ procs[TaskOf(p)].pc = "stage"
        /\ cyc.pc = "in_update"
        /\ procs[StageSlot].proj = p
        /\ procs[StageSlot].stage = "UPDATE"
        /\ procs[StageSlot].pc = "stage"

(***************************************************************************)
(* Claims about the lock files an invocation touches (SpecBin).            *)
(***************************************************************************)
\* C22: a step of an update or launch invocation for a project changes no
\* lock file but the one of that project and that stage.
C22_OnlyOwnLockTouched ==
    [][\A i \in Clis :
          (/\ procs'[i] # procs[i]
           /\ procs[i].pc # "idle"
           /\ procs[i].stage \in {"UPDATE", "LAUNCH"})
          => \A k \in DOMAIN flagfiles :
                 flagfiles'[k] # flagfiles[k]
                     => k = FlagFile(procs[i].proj, procs[i].stage)]_vars

\* C22 witness: an update or launch invocation has faulted and its except
\* clause has removed its own lock file, while another invocation for the
\* same project, in another stage, still holds its lock file.
C22_Witness ==
    \E i \in Clis, j \in Clis :
        /\ procs[i].stage \in {"UPDATE", "LAUNCH"}
        /\ procs[i].pc = "done"
        /\ procs[i].acq = "acquired"
        /\ procs[i].fault = "message"
        /\ flagfiles[KeyOf(i)] = NoFile
        /\ procs[j].proj = procs[i].proj
        /\ procs[j].stage # procs[i].stage
        /\ procs[j].pc = "stage"
        /\ flagfiles[KeyOf(j)] = LockText(HostOf(j), PidOf(j))

(***************************************************************************)
(* Claims about the documents the catalog writes (SpecCat).                *)
(***************************************************************************)
\* C23: every document a regeneration has written has the five top-level
\* keys the settings reader requires, so that reading it raises no
\* DaxError.
C23_GeneratedDocHasRequiredKeys ==
    \A p \in Proj :
        sdir[p] # NoDoc => ~SettingsFault(DOMAIN sdir[p].body)

\* C23 witness: a regeneration has returned normally and has written a
\* document, whose top-level keys are those of dump, processors not being
\* one of them.
C23_Witness ==
    /\ cat.pc = "ok"
    /\ \E p \in Proj :
          /\ sdir[p] # NoDoc
          /\ DOMAIN sdir[p].body = DumpKeys
          /\ "processors" \notin DOMAIN sdir[p].body

(***************************************************************************)
(* Claims about a reaping pass beside other processes (SpecRace).          *)
(***************************************************************************)
\* the file carries the text of a process of this host that is alive
LiveLocalOwner(f) ==
    \E p \in Pids :
        /\ flagfiles[f] = LockText(ThisHost(reap.host), p)
        /\ ptable[p] = "own"

\* C24: the os.remove of a reaping pass never removes a lock file that, at
\* that moment, carries the text of a live process of this host.
C24_ReapSparesLiveOwner ==
    [][\A f \in DOMAIN flagfiles :
          (/\ reap.pc = "remove"
           /\ reap'.pc = "open"
           /\ f = Head(reap.list)
           /\ flagfiles'[f] = NoFile)
          => ~LiveLocalOwner(f)]_vars

\* C24 witness: a process of this host is alive, no file carries its text
\* any more, and the pass has removed a file that carried it.
C24_Witness ==
    \E p \in Pids :
        /\ ptable[p] = "own"
        /\ \A g \in DOMAIN flagfiles : flagfiles[g] # LockText(HostN, p)
        /\ \E f \in DOMAIN flagfiles : <<f, LockText(HostN, p)>> \in deleted

(***************************************************************************)
(* Claims about the bookkeeping of the build tasks (Spec).                 *)
(***************************************************************************)
\* C25: a build task has written the finish record only if its own build
\* invocation acquired the build lock, and a task whose invocation was
\* refused the lock has written neither the start nor the finish record.
C25_OnlyLockHolderRecords ==
    \A i \in Tasks :
        /\ "finish" \in procs[i].wrote => procs[i].acq = "acquired"
        /\ procs[i].acq = "refused" => procs[i].wrote = {}

\* C25 witness: a task passed the is_locked check, its invocation was
\* then refused the lock, and it has written the start record and the
\* finish record with status 2.
C25_Witness ==
    \E i \in Tasks :
        /\ ~procs[i].saw
        /\ procs[i].acq = "refused"
        /\ procs[i].pc = "done"
        /\ procs[i].wrote = {"start", "finish"}
        /\ reg[procs[i].proj].status = "2"

\* the names of a sequence of descriptors
NamesOf(recs) == [i \in DOMAIN recs |-> recs[i].name]

\* the names whose form reports completion code 2 for the project
EnabledNames(names, forms) ==
    SelectSeq(names, LAMBDA n : forms[n].complete = "2")

\* the names of a comma-separated assignment list
ListNames(text) == {text[i] : i \in {j \in DOMAIN text : text[j] # ","}}

\* C26: while the registry is as the last regeneration read it, the
\* document of a project has one project entry, that project's; its
\* module and processor catalogs hold the descriptors of exactly the
\* forms that report code 2 for that project; and every name of the
\* entry's assignment lists has a descriptor in the catalog.
C26_DocumentIsolated ==
    cat.pc \in {"ok", "fault"} =>
        \A p \in Proj :
            sdir[p] # NoDoc =>
                LET b == sdir[p].body
                IN  /\ Len(b.projects) = 1
                    /\ b.projects[1].project = p
                    /\ NamesOf(b.modules)
                           = EnabledNames(ModuleNames, rc[p].modules)
                    /\ NamesOf(b.yamlprocessors)
                           = EnabledNames(ProcessorNames, rc[p].processors)
                    /\ \A n \in ListNames(b.projects[1].modules) :
                           \E i \in DOMAIN b.modules : b.modules[i].name = n
                    /\ \A n \in ListNames(b.projects[1].yamlprocessors) :
                           \E i \in DOMAIN b.yamlprocessors :
                               b.yamlprocessors[i].name = n

\* C26 witness: one regeneration has written the documents of two
\* projects, the first with a module and a processor the second has not
\* enabled.
C26_Witness ==
    /\ cat.pc = "ok"
    /\ \E p \in Proj, q \in Proj :
          /\ sdir[p] # NoDoc
          /\ sdir[q] # NoDoc
          /\ sdir[p].body.modules # <<>>
          /\ sdir[p].body.yamlprocessors # <<>>
          /\ ListNames(sdir[p].body.projects[1].modules) # {}
          /\ sdir[q].body.modules = <<>>
          /\ sdir[q].body.yamlprocessors = <<>>

\* C27: a build task whose start record was refused by the registry has
\* ended with DaxManagerError without having read the settings or asked
\* for the lock, that is without the build collaborator having been
\* called, and it has written neither record.
C27_StartFailureStopsTask ==
    \A i \in Tasks :
        (procs[i].out = "DaxManagerError" /\ "start" \notin procs[i].wrote)
            => /\ procs[i].pc = "done"
               /\ procs[i].doc = Unread
               /\ procs[i].acq = "none"
               /\ procs[i].wrote = {}

\* C27 witness: the start record of one task failed and the task ended
\* with DaxManagerError, while the task of another project ran its build
\* under the lock and recorded its finish.
C27_Witness ==
    \E i \in Tasks, j \in Tasks :
        /\ procs[i].pc = "done"
        /\ procs[i].out = "DaxManagerError"
        /\ procs[i].wrote = {}
        /\ procs[j].proj # procs[i].proj
        /\ procs[j].pc = "done"
        /\ procs[j].out = "ok"
        /\ procs[j].acq = "acquired"
        /\ procs[j].wrote = {"start", "finish"}
        /\ reg[procs[j].proj].status = "2"

(***************************************************************************)
(* Claims about the last-run time (SpecRounds).                            *)
(***************************************************************************)
\* C28: the last-run time handed to the task of the next cycle is the
\* start time the project's task before it recorded, whenever that task
\* recorded its start and its finish; and it is None only if that task
\* did not record a finish.
C28_LastRunRoundTrip ==
    \A i \in Tasks :
        procs[i].requeued =>
            /\ procs[i].prev.wrote = {"start", "finish"}
                   => procs[i].lastrun = procs[i].prev.start
            /\ procs[i].lastrun = NoTime
                   => "finish" \notin procs[i].prev.wrote

\* C28 witness: a task recorded its start and, within the same second,
\* its finish, and the task of the next cycle was handed None.
C28_Witness ==
    \E i \in Tasks :
        /\ procs[i].requeued
        /\ procs[i].prev.wrote = {"start", "finish"}
        /\ procs[i].prev.start # NoTime
        /\ procs[i].prev.start = procs[i].prev.finish
        /\ procs[i].lastrun = NoTime

\* C28, builds that take a second or more: the task of the next cycle is
\* handed the start time the task before it recorded.
C28_LaterFinishRoundTrip ==
    \A i \in Tasks :
        (/\ procs[i].requeued
         /\ procs[i].prev.wrote = {"start", "finish"}
         /\ procs[i].prev.start < procs[i].prev.finish)
            => procs[i].lastrun = procs[i].prev.start

====
